---- MODULE Spec2Model ----
(***************************************************************************)
(* The dice widget of src/components/Dice: the DiceRoller component (roll  *)
(* state, the 800ms settle timers, the die-kind buttons) and the DieMesh   *)
(* it renders (face table, memoised target rotation, per-frame callback).  *)
(*                                                                         *)
(* Every event handler runs to completion on the UI thread and React       *)
(* re-renders before the next event is dispatched, so one action is one    *)
(* handler together with the render that follows it.                       *)
(*                                                                         *)
(* Real numbers are fixed point: a length or a vector/quaternion component *)
(* x is held as the integer nearest to x * Scale.  Math.random() is held   *)
(* as a numerator k of k / UDen, 0 <= k < UDen.                            *)
(***************************************************************************)
EXTENDS Integers, Sequences, FiniteSets, TLC

\* ---- bounds of the model -------------------------------------------------
\* Most settle timers outstanding at once (setTimeout itself has no limit).
MaxTimers == 3
\* Math.random() is drawn from {0/UDen, ..., (UDen-1)/UDen}.
UDen == 10
\* Fixed-point unit: 1.0 is Scale.
Scale == 100
\* Tolerance, in fixed-point units, of "within floating-point tolerance".
Tol == 3

\* ---- values ----------------------------------------------------------------
\* DieType.D4, D6, D8, D10: the four kinds the buttons offer.
DieTypes == {4, 6, 8, 10}
\* result === null
NoResult == 0
\* targetQuaternion === null
NoTarget == <<>>

VARIABLES
  selectedDie,       \* useState<DieType>(DieType.D6)
  result,            \* useState<number | null>(1)
  isRolling,         \* useState(false)
  timers,            \* pending setTimeout callbacks, oldest first; each holds
                     \* the selectedDie its closure captured
  meshRef,           \* meshRef.current !== null
  faces,             \* useMemo(() => getDieConfig(type), [type]).faces
  targetQuaternion,  \* useMemo(..., [result, faces])
  motion,            \* what the latest useFrame callback did to the mesh
  event              \* the handler that ran last, with its inputs

vars == <<selectedDie, result, isRolling, timers, meshRef, faces,
          targetQuaternion, motion, event>>

\* ---- fixed-point arithmetic ------------------------------------------------
Abs(x) == IF x < 0 THEN -x ELSE x

\* a / b rounded to the nearest integer (b > 0).
Round(a, b) == (2 * a + b) \div (2 * b)

\* Bisection for floor(sqrt(n)) between lo and hi.
SqrtSearch[n \in Nat, lo \in Nat, hi \in Nat] ==
  IF lo >= hi THEN lo
  ELSE LET mid == (lo + hi + 1) \div 2
       IN  IF mid * mid <= n THEN SqrtSearch[n, mid, hi]
           ELSE SqrtSearch[n, lo, mid - 1]

\* floor(sqrt(n)) for 0 <= n < 2^31.
ISqrt(n) == SqrtSearch[n, 0, 46340]

\* new THREE.Vector3(x, y, z) with integer coordinates.
Vector3(x, y, z) == <<x * Scale, y * Scale, z * Scale>>

Dot(a, b) == a[1] * b[1] + a[2] * b[2] + a[3] * b[3]

Cross(a, b) == <<a[2] * b[3] - a[3] * b[2],
                 a[3] * b[1] - a[1] * b[3],
                 a[1] * b[2] - a[2] * b[1]>>

\* Vector3.normalize(): divide by the length.
Normalize(v) ==
  LET len == ISqrt(Dot(v, v))
  IN  [i \in 1..3 |-> Round(v[i] * Scale, len)]

\* ---- Die3D.tsx: face table -------------------------------------------------
\* Math.sin / Math.cos of (i / 5) * 2 * PI + PI / 5 for i = 0..4, in 1/1000.
SinMilli == <<588, 951, 0, -951, -588>>
CosMilli == <<809, -309, -1000, -309, 809>>

Fixed(milli) == Round(milli * Scale, 1000)

Face(v, n) == [value |-> v, normal |-> n]

\* A D10 loop that numbers the bottom faces like the top ones.
D10Pair_SameValue(i) ==
  LET s == Fixed(SinMilli[i + 1])
      c == Fixed(CosMilli[i + 1])
      half == Scale \div 2
  IN  << Face(i * 2 + 1, Normalize(<<s, half, c>>)),
         Face(i * 2 + 1, Normalize(<<s, -half, c>>)) >>

\* The body of the D10 loop for index i: the top face, then the bottom face.
D10Pair(i) ==
  LET s == Fixed(SinMilli[i + 1])
      c == Fixed(CosMilli[i + 1])
      half == Scale \div 2
  IN  << Face(i * 2 + 1, Normalize(<<s, half, c>>)),
         Face(i * 2 + 2, Normalize(<<s, -half, c>>)) >>

RECURSIVE D10Faces(_)
\* for (let i = 0; i < 5; i++) { d10Faces.push(top); d10Faces.push(bottom) }
D10Faces(i) == IF i >= 5 THEN <<>> ELSE D10Pair(i) \o D10Faces(i + 1)

\* getDieConfig(type).faces
getDieConfig(type) ==
  CASE type = 4 ->
         << Face(1, Normalize(Vector3(1, 1, 1))),
            Face(2, Normalize(Vector3(-1, -1, 1))),
            Face(3, Normalize(Vector3(-1, 1, -1))),
            Face(4, Normalize(Vector3(1, -1, -1))) >>
    [] type = 6 ->
         << Face(1, Vector3(1, 0, 0)),
            Face(2, Vector3(-1, 0, 0)),
            Face(3, Vector3(0, 1, 0)),
            Face(4, Vector3(0, -1, 0)),
            Face(5, Vector3(0, 0, 1)),
            Face(6, Vector3(0, 0, -1)) >>
    [] type = 8 ->
         << Face(1, Normalize(Vector3(1, 1, 1))),
            Face(2, Normalize(Vector3(-1, 1, 1))),
            Face(3, Normalize(Vector3(1, 1, -1))),
            Face(4, Normalize(Vector3(-1, 1, -1))),
            Face(5, Normalize(Vector3(1, -1, 1))),
            Face(6, Normalize(Vector3(-1, -1, 1))),
            Face(7, Normalize(Vector3(1, -1, -1))),
            Face(8, Normalize(Vector3(-1, -1, -1))) >>
    [] type = 10 -> D10Faces(0)

\* ---- Die3D.tsx: target rotation --------------------------------------------
\* Quaternion.normalize(): divide the four components by the length.
QNormalize(q) ==
  LET len == ISqrt(q[1] * q[1] + q[2] * q[2] + q[3] * q[3] + q[4] * q[4])
  IN  [i \in 1..4 |-> Round(q[i] * Scale, len)]

\* THREE.Quaternion.setFromUnitVectors(vFrom, vTo), as <<x, y, z, w>>.
\* r = vFrom.dot(vTo) + 1; r < Number.EPSILON is r <= 0 at this resolution.
setFromUnitVectors(vFrom, vTo) ==
  LET r == Dot(vFrom, vTo) + Scale * Scale
  IN  IF r <= 0
      THEN IF Abs(vFrom[1]) > Abs(vFrom[3])
           THEN QNormalize(<<-vFrom[2], vFrom[1], 0, 0>>)
           ELSE QNormalize(<<0, -vFrom[3], vFrom[2], 0>>)
      ELSE LET c == Cross(vFrom, vTo)
           IN  QNormalize(<<c[1], c[2], c[3], r>>)

\* const targetVec = new THREE.Vector3(0, 0, 1)
targetVec == Vector3(0, 0, 1)

\* faces.find(f => f.value === result), and faces[0] when there is none.
FindFace(fs, res) ==
  IF \E i \in 1..Len(fs) : fs[i].value = res
  THEN fs[CHOOSE i \in 1..Len(fs) :
            /\ fs[i].value = res
            /\ \A j \in 1..(i - 1) : fs[j].value # res]
  ELSE fs[1]

\* A target computed with the arguments of setFromUnitVectors exchanged.
TargetQuaternion_Swapped(res, fs, mounted) ==
  IF res = NoResult \/ ~mounted THEN NoTarget
  ELSE setFromUnitVectors(targetVec, FindFace(fs, res).normal)

\* The body of the targetQuaternion memo.
TargetQuaternion(res, fs, mounted) ==
  IF res = NoResult \/ ~mounted THEN NoTarget
  ELSE setFromUnitVectors(FindFace(fs, res).normal, targetVec)

\* Vector3.applyQuaternion(q): v rotated by the unit quaternion q.
applyQuaternion(v, q) ==
  LET qv == <<q[1], q[2], q[3]>>
      c  == Cross(qv, v)
      t  == <<2 * c[1], 2 * c[2], 2 * c[3]>>
      ct == Cross(qv, t)
  IN  [i \in 1..3 |-> v[i] + Round(q[4] * t[i] + ct[i], Scale * Scale)]

\* Two vectors agree within the tolerance.
Near(a, b) == \A i \in 1..3 : Abs(a[i] - b[i]) <= Tol

\* ---- DieMesh render: the two useMemo hooks ----------------------------------
\* getDieConfig and the target memo are pure: their values for every die kind
\* and every value a roll can produce, computed once.
FaceTable == [t \in DieTypes |-> getDieConfig(t)]

TargetTable ==
  [t \in DieTypes |->
     [v \in 1..10 |-> TargetQuaternion(v, FaceTable[t], TRUE)]]

\* The render that follows a state update to (newDie, newResult): each memo is
\* recomputed only when one of its dependencies changed.
Render(newDie, newResult) ==
  /\ faces' = IF newDie # selectedDie THEN FaceTable[newDie] ELSE faces
  /\ targetQuaternion' =
       IF newResult # result \/ newDie # selectedDie
       THEN IF newResult = NoResult \/ ~meshRef
            THEN TargetQuaternion(newResult, FaceTable[newDie], meshRef)
            ELSE TargetTable[newDie][newResult]
       ELSE targetQuaternion

\* ---- DiceRoller.tsx ----------------------------------------------------------
Event(op, arg, u) == [op |-> op, arg |-> arg, u |-> u]

\* Math.round in place of Math.floor.
RollValue_Rounded(k, sides) == Round(k * sides, UDen) + 1

\* Math.floor(Math.random() * sides) + 1 with Math.random() = k / UDen.
RollValue(k, sides) == (k * sides) \div UDen + 1

Init ==
  /\ selectedDie = 6
  /\ result = 1
  /\ isRolling = FALSE
  /\ timers = <<>>
  /\ meshRef = FALSE
  /\ faces = FaceTable[6]
  /\ targetQuaternion = TargetQuaternion(1, FaceTable[6], FALSE)
  /\ motion = "none"
  /\ event = Event("mount", 0, 0)

\* React commits the first render: <mesh ref={meshRef}> is attached.
Commit ==
  /\ ~meshRef
  /\ meshRef' = TRUE
  /\ event' = Event("commit", 0, 0)
  /\ UNCHANGED <<selectedDie, result, isRolling, timers, faces,
                 targetQuaternion, motion>>

\* rollDice without its `if (isRolling) return`.
rollDice_NoGuard ==
  /\ meshRef
  /\ Len(timers) < MaxTimers
  /\ isRolling' = TRUE
  /\ result' = NoResult
  /\ timers' = Append(timers, selectedDie)
  /\ Render(selectedDie, NoResult)
  /\ event' = Event("roll", 0, 0)
  /\ UNCHANGED <<selectedDie, meshRef, motion>>

\* rollDice without its setResult(null).
rollDice_KeepResult ==
  /\ meshRef
  /\ isRolling \/ Len(timers) < MaxTimers
  /\ IF isRolling
     THEN /\ event' = Event("roll", 1, 0)
          /\ UNCHANGED <<selectedDie, result, isRolling, timers, meshRef,
                         faces, targetQuaternion, motion>>
     ELSE /\ isRolling' = TRUE
          /\ timers' = Append(timers, selectedDie)
          /\ event' = Event("roll", 0, 0)
          /\ UNCHANGED <<selectedDie, result, meshRef, faces,
                         targetQuaternion, motion>>

\* onClick={rollDice}.  event.arg is 1 when the handler returned at its guard.
rollDice ==
  /\ meshRef
  /\ isRolling \/ Len(timers) < MaxTimers
  /\ IF isRolling
     THEN /\ event' = Event("roll", 1, 0)
          /\ UNCHANGED <<selectedDie, result, isRolling, timers, meshRef,
                         faces, targetQuaternion, motion>>
     ELSE /\ isRolling' = TRUE
          /\ result' = NoResult
          /\ timers' = Append(timers, selectedDie)
          /\ Render(selectedDie, NoResult)
          /\ event' = Event("roll", 0, 0)
          /\ UNCHANGED <<selectedDie, meshRef, motion>>

\* The die-kind button's onClick without its setIsRolling(false).
SelectDie_KeepRolling(type) ==
  /\ meshRef
  /\ selectedDie' = type
  /\ result' = 1
  /\ Render(type, 1)
  /\ event' = Event("select", type, 0)
  /\ UNCHANGED <<isRolling, timers, meshRef, motion>>

\* The die-kind button's onClick for `type`.
SelectDie(type) ==
  /\ meshRef
  /\ selectedDie' = type
  /\ result' = 1
  /\ isRolling' = FALSE
  /\ Render(type, 1)
  /\ event' = Event("select", type, 0)
  /\ UNCHANGED <<timers, meshRef, motion>>

\* The timer callback without its setIsRolling(false).
TimerFire_KeepRolling(k) ==
  /\ timers # <<>>
  /\ LET sides == Head(timers)
         newResult == RollValue(k, sides)
     IN  /\ result' = newResult
         /\ Render(selectedDie, newResult)
         /\ event' = Event("timer", sides, k)
  /\ timers' = Tail(timers)
  /\ UNCHANGED <<selectedDie, isRolling, meshRef, motion>>

\* The oldest setTimeout callback runs; Math.random() returns k / UDen.
\* event.arg is the selectedDie the callback's closure holds.
TimerFire(k) ==
  /\ timers # <<>>
  /\ LET sides == Head(timers)
         newResult == RollValue(k, sides)
     IN  /\ result' = newResult
         /\ isRolling' = FALSE
         /\ Render(selectedDie, newResult)
         /\ event' = Event("timer", sides, k)
  /\ timers' = Tail(timers)
  /\ UNCHANGED <<selectedDie, meshRef, motion>>

\* The useFrame callback: spin, slerp toward the target, or leave the mesh.
useFrame ==
  /\ meshRef
  /\ motion' = IF isRolling THEN "spin"
               ELSE IF result # NoResult /\ targetQuaternion # NoTarget
                    THEN "slerp"
                    ELSE "none"
  /\ event' = Event("frame", 0, 0)
  /\ UNCHANGED <<selectedDie, result, isRolling, timers, meshRef, faces,
                 targetQuaternion>>

Next ==
  \/ Commit
  \/ rollDice
  \/ \E type \in DieTypes : SelectDie(type)
  \/ \E k \in 0..(UDen - 1) : TimerFire(k)
  \/ useFrame

Spec == Init /\ [][Next]_vars

\* Every scheduled timer eventually fires.
TimerFires == \E k \in 0..(UDen - 1) : TimerFire(k)

LiveSpec == Init /\ [][Next]_vars /\ WF_vars(TimerFires)

\* ---- properties --------------------------------------------------------------
HasFace(fs, v) == \E i \in 1..Len(fs) : fs[i].value = v

\* C1: whenever result is present it is in 1..N for the selected die kind N,
\* and the face lookup finds a face with that value (no first-face fallback).
C1_ResultInRange ==
  result # NoResult => (result \in 1..selectedDie /\ HasFace(faces, result))

\* C2: at most one settle timer is outstanding in every reachable state.
C2_SingleTimer == Len(timers) <= 1

\* C3: a roll click received while isRolling is true changes none of
\* selectedDie, result, isRolling, and schedules no timer.
C3_RollWhileRollingNoOp ==
  [][(isRolling /\ event'.op = "roll")
       => UNCHANGED <<selectedDie, result, isRolling, timers>>]_vars

C3_Witness == isRolling /\ event = Event("roll", 1, 0) /\ Len(timers) = 1

\* C4: isRolling is true exactly when result is absent.
C4_RollingIffAbsent == isRolling <=> (result = NoResult)

C4_Witness ==
  /\ event.op = "timer"
  /\ ~isRolling
  /\ result # NoResult
  /\ timers # <<>>

\* C5: right after a die-kind selection, from any state, selectedDie is the
\* chosen kind, result is 1, isRolling is false and the face table in use is
\* the chosen kind's, with exactly that many faces.
C5_SelectResets ==
  event.op = "select" =>
    /\ selectedDie = event.arg
    /\ result = 1
    /\ ~isRolling
    /\ Len(faces) = event.arg
    /\ faces = getDieConfig(event.arg)

C5_Witness == event = Event("select", 10, 0) /\ timers # <<>>

\* C6: the value a settle timer writes is floor(u * sides) + 1 for the die
\* kind its roll was started with: within 1..sides, 1 for u = 0, sides for the
\* largest u below 1.
C6_TimerValue ==
  event.op = "timer" =>
    /\ result \in 1..event.arg
    /\ (result - 1) * UDen <= event.u * event.arg
    /\ event.u * event.arg < result * UDen
    /\ (event.u = 0 => result = 1)
    /\ (event.u = UDen - 1 => result = event.arg)

C6_Witness ==
  /\ event = Event("timer", 10, UDen - 1)
  /\ result = 10
  /\ selectedDie = 4

\* C7: the face table of every die kind N has exactly N faces whose values
\* are exactly 1..N; on the D10 the i-th upper face is 2i+1 and the i-th lower
\* face is 2i+2.
C7_FacesContiguous ==
  /\ Len(faces) = selectedDie
  /\ {faces[i].value : i \in 1..Len(faces)} = 1..selectedDie
  /\ selectedDie = 10 =>
       \A i \in 0..4 :
         /\ faces[2 * i + 1].value = 2 * i + 1
         /\ faces[2 * i + 1].normal[2] > 0
         /\ faces[2 * i + 2].value = 2 * i + 2
         /\ faces[2 * i + 2].normal[2] < 0

C7_Witness == selectedDie = 10 /\ event.op = "select"

\* Every declared face of every die kind: the target computed for the face's
\* value carries the face's own normal onto targetVec.
AllFacesAlign ==
  \A t \in DieTypes :
    LET fs == getDieConfig(t)
    IN  \A i \in 1..Len(fs) :
          Near(applyQuaternion(fs[i].normal,
                               TargetQuaternion(fs[i].value, fs, TRUE)),
               targetVec)

\* The two D6 faces on the viewer axis itself: value 5 (normal (0,0,1)) and
\* value 6 (normal (0,0,-1)) are carried onto targetVec exactly.
DegenerateFacesAlign ==
  LET fs == getDieConfig(6)
  IN  \A v \in {5, 6} :
        applyQuaternion(FindFace(fs, v).normal, TargetQuaternion(v, fs, TRUE))
          = targetVec

\* C8: the target rotation computed for a declared face's value carries that
\* face's normal onto the viewer axis (0,0,1), within tolerance: for the
\* target the mesh currently holds, and for every face of every die kind.
C8_TargetAlignsFace ==
  /\ (targetQuaternion # NoTarget /\ HasFace(faces, result)) =>
       Near(applyQuaternion(FindFace(faces, result).normal, targetQuaternion),
            targetVec)
  /\ AllFacesAlign
  /\ DegenerateFacesAlign

C8_Witness ==
  /\ selectedDie = 6
  /\ result = 6
  /\ targetQuaternion # NoTarget
  /\ event.op = "timer"

\* C9: whenever isRolling is false and result is present, an animation tick
\* interpolates toward a (non-absent) target rotation.
C9_SettledTickSlerps ==
  (event.op = "frame" /\ ~isRolling /\ result # NoResult) =>
    (targetQuaternion # NoTarget /\ motion = "slerp")

\* C10: every roll eventually settles, given that scheduled timers fire.
C10_RollSettles == isRolling ~> (~isRolling /\ result # NoResult)

C10_Witness ==
  /\ event.op = "timer"
  /\ ~isRolling
  /\ result # NoResult
  /\ timers = <<>>

====
